---- MODULE Spec2Model ----
(***************************************************************************)
(* A model of the str-cursor crate: StrCursor<'s, S: Spanner> (lib.rs),    *)
(* the four spanners (spanner.rs) and the Pattern polyfill (pattern.rs).   *)
(*                                                                         *)
(* A &str is modelled as the sequence of its UTF-8 bytes; a char as its    *)
(* Unicode scalar value.  Offsets are byte offsets, as in the source.      *)
(* Option<T> is modelled as a sequence of length 0 (None) or 1 (Some).     *)
(***************************************************************************)
EXTENDS Integers, Sequences, FiniteSets

\* ---------------------------------------------------------------- bounds
\* longest buffer, in code points
MaxLen == 3
\* longest literal text pattern, in code points
MaxPatLen == 2

\* the code points buffers and patterns are drawn from:
\* TAB (a control char), LF (the newline), U+20AC (an ordinary char, 3 bytes)
Alphabet == {9, 10, 8364}
\* the code points literal text patterns are made of
NeedleAlphabet == {10, 8364}

\* a caller-supplied ByteSpanner { bytes } (the field is public)
InitBytes == 7

VARIABLES
  text,              \* the bytes of the buffer the cursor was created over
  init_spanner,      \* the spanner the cursor was created with
  base,              \* StrCursor.base: a slice [ptr, len] of text
  highlight_length,  \* StrCursor.highlight_length
  spanner_tail,      \* StrCursor.spanner_tail
  spanner_head,      \* StrCursor.spanner_head
  panicked,          \* the program aborted in Spanner::backward
  last,              \* the last call: its name, the cursor before it, what it returned
  trip               \* the current run of step() calls followed by unstep() calls

vars == <<text, init_spanner, base, highlight_length, spanner_tail, spanner_head,
          panicked, last, trip>>

\* ------------------------------------------------------- std: char, str
SeqsUpTo(S, n) == UNION {[1..k -> S] : k \in 0..n}

len_utf8(c) ==
  IF c < 128 THEN 1 ELSE IF c < 2048 THEN 2 ELSE IF c < 65536 THEN 3 ELSE 4

encode_utf8(c) ==
  CASE c < 128   -> <<c>>
    [] c >= 128 /\ c < 2048 -> <<192 + (c \div 64), 128 + (c % 64)>>
    [] c >= 2048 /\ c < 65536 ->
         <<224 + (c \div 4096), 128 + ((c \div 64) % 64), 128 + (c % 64)>>
    [] OTHER ->
         <<240 + (c \div 262144), 128 + ((c \div 4096) % 64),
           128 + ((c \div 64) % 64), 128 + (c % 64)>>

\* the bytes of the str holding the code points cs
RECURSIVE Str(_)
Str(cs) == IF cs = <<>> THEN <<>> ELSE encode_utf8(Head(cs)) \o Str(Tail(cs))

is_continuation(b) == b >= 128 /\ b < 192

\* width of the code point announced by a lead byte
lead_width(b) ==
  IF b < 128 THEN 1 ELSE IF b < 224 THEN 2 ELSE IF b < 240 THEN 3 ELSE 4

\* the code point encoded by the n bytes of s starting at byte offset i
decode_at(s, i, n) ==
  CASE n = 1 -> s[i + 1]
    [] n = 2 -> (s[i + 1] - 192) * 64 + (s[i + 2] - 128)
    [] n = 3 -> (s[i + 1] - 224) * 4096 + (s[i + 2] - 128) * 64 + (s[i + 3] - 128)
    [] OTHER -> (s[i + 1] - 240) * 262144 + (s[i + 2] - 128) * 4096
                + (s[i + 3] - 128) * 64 + (s[i + 4] - 128)

is_char_boundary(s, i) ==
  \/ i = 0
  \/ i = Len(s)
  \/ i > 0 /\ i < Len(s) /\ ~is_continuation(s[i + 1])

\* s.chars().next()
chars_next(s) ==
  IF s = <<>> THEN <<>> ELSE <<decode_at(s, 0, lead_width(s[1]))>>

\* s.char_indices().next_back(): <<c_idx, c>> or <<>>
char_indices_next_back(s) ==
  IF s = <<>> THEN <<>>
  ELSE LET i == CHOOSE k \in 0..(Len(s) - 1) :
                  /\ ~is_continuation(s[k + 1])
                  /\ \A j \in (k + 1)..(Len(s) - 1) : is_continuation(s[j + 1])
       IN  <<i, decode_at(s, i, Len(s) - i)>>

\* s.chars() collected
RECURSIVE chars(_)
chars(s) ==
  IF s = <<>> THEN <<>>
  ELSE LET n == lead_width(s[1])
       IN  <<decode_at(s, 0, n)>> \o chars(SubSeq(s, n + 1, Len(s)))

is_newline(c) == c = 10
\* char::is_control: general category Cc
is_control(c) == c < 32 \/ (c >= 127 /\ c < 160)

\* ------------------------------------------------------------- spanners
\* The usize counters are modelled as integers.  An addition cannot wrap
\* here: a counter grows by at most the buffer's length above the value the
\* cursor was created with, and the modelled initial values are small.  A
\* subtraction below zero depends on the build, which backward and unstep
\* take as overflow_checks: with overflow checks (TRUE, the debug profile)
\* it is a panic that leaves the counter as it was, without them (FALSE,
\* the release profile) the counter wraps.  A wrapped counter is held by the representative of its residue
\* mod 2^64 that is nearest to zero: n < 0 stands for the usize 2^64 + n
\* (-1 is usize::MAX).
NoOpDefault   == [kind |-> "NoOp"]
ByteDefault   == [kind |-> "Byte", bytes |-> 0]
CharDefault   == [kind |-> "Char", kars |-> 0]
RowColDefault == [kind |-> "RowCol", row |-> 0, col |-> 0, old_cols |-> <<>>]

\* forward that does not save col in old_cols on a newline
forward_no_push(sp, c) ==
  CASE sp.kind = "NoOp" -> sp
    [] sp.kind = "Byte" -> [sp EXCEPT !.bytes = @ + len_utf8(c)]
    [] sp.kind = "Char" -> [sp EXCEPT !.kars = @ + 1]
    [] OTHER ->
         IF is_newline(c)
         THEN [sp EXCEPT !.row = @ + 1, !.col = 0]
         ELSE IF is_control(c) THEN sp
         ELSE [sp EXCEPT !.col = @ + 1]

\* forward without the is_control arm: control chars count as a column
forward_count_control(sp, c) ==
  CASE sp.kind = "NoOp" -> sp
    [] sp.kind = "Byte" -> [sp EXCEPT !.bytes = @ + len_utf8(c)]
    [] sp.kind = "Char" -> [sp EXCEPT !.kars = @ + 1]
    [] OTHER ->
         IF is_newline(c)
         THEN [sp EXCEPT !.old_cols = Append(@, sp.col), !.row = @ + 1, !.col = 0]
         ELSE [sp EXCEPT !.col = @ + 1]

forward(sp, c) ==
  CASE sp.kind = "NoOp" -> sp
    [] sp.kind = "Byte" -> [sp EXCEPT !.bytes = @ + len_utf8(c)]
    [] sp.kind = "Char" -> [sp EXCEPT !.kars = @ + 1]
    [] OTHER ->
         IF is_newline(c)
         THEN [sp EXCEPT !.old_cols = Append(@, sp.col), !.row = @ + 1, !.col = 0]
         ELSE IF is_control(c) THEN sp
         ELSE [sp EXCEPT !.col = @ + 1]

\* a - b on usize is below zero (a negative a stands for a wrapped, huge one)
sub_underflows(a, b) == a >= 0 /\ a < b

\* a -= b panics: the subtraction is below zero and the build checks it
sub_panics(a, b, overflow_checks) == overflow_checks /\ sub_underflows(a, b)

\* backward aborts the program: a checked subtraction below zero, or unwrap
\* of the pop of an empty old_cols
backward_panics(sp, c, overflow_checks) ==
  CASE sp.kind = "NoOp" -> FALSE
    [] sp.kind = "Byte" -> sub_panics(sp.bytes, len_utf8(c), overflow_checks)
    [] sp.kind = "Char" -> sub_panics(sp.kars, 1, overflow_checks)
    [] OTHER ->
         IF is_newline(c)
         THEN sub_panics(sp.row, 1, overflow_checks) \/ sp.old_cols = <<>>
         ELSE IF is_control(c) THEN FALSE
         ELSE sub_panics(sp.col, 1, overflow_checks)

\* backward that pops old_cols on a newline but does not restore col from it
backward_col_lost(sp, c, overflow_checks) ==
  CASE sp.kind = "NoOp" -> sp
    [] sp.kind = "Byte" -> [sp EXCEPT !.bytes = @ - len_utf8(c)]
    [] sp.kind = "Char" -> [sp EXCEPT !.kars = @ - 1]
    [] OTHER ->
         IF is_newline(c)
         THEN [sp EXCEPT !.row = @ - 1,
                         !.old_cols = SubSeq(@, 1, Len(@) - 1)]
         ELSE IF is_control(c) THEN sp
         ELSE [sp EXCEPT !.col = @ - 1]

\* backward whose ByteSpanner arm subtracts 1 instead of the char's width
backward_one_byte(sp, c, overflow_checks) ==
  CASE sp.kind = "NoOp" -> sp
    [] sp.kind = "Byte" -> [sp EXCEPT !.bytes = @ - 1]
    [] sp.kind = "Char" -> [sp EXCEPT !.kars = @ - 1]
    [] OTHER ->
         IF is_newline(c)
         THEN [sp EXCEPT !.row = @ - 1,
                         !.col = sp.old_cols[Len(sp.old_cols)],
                         !.old_cols = SubSeq(@, 1, Len(@) - 1)]
         ELSE IF is_control(c) THEN sp
         ELSE [sp EXCEPT !.col = @ - 1]

\* the spanner as the call leaves it, whether it returns or panics: a
\* panicking subtraction stores nothing, and on a newline row is stored
\* before old_cols is popped
backward(sp, c, overflow_checks) ==
  CASE sp.kind = "NoOp" -> sp
    [] sp.kind = "Byte" ->
         IF sub_panics(sp.bytes, len_utf8(c), overflow_checks) THEN sp
         ELSE [sp EXCEPT !.bytes = @ - len_utf8(c)]
    [] sp.kind = "Char" ->
         IF sub_panics(sp.kars, 1, overflow_checks) THEN sp
         ELSE [sp EXCEPT !.kars = @ - 1]
    [] OTHER ->
         IF is_newline(c)
         THEN IF sub_panics(sp.row, 1, overflow_checks) THEN sp
              ELSE IF sp.old_cols = <<>> THEN [sp EXCEPT !.row = @ - 1]
              ELSE [sp EXCEPT !.row = @ - 1,
                              !.col = sp.old_cols[Len(sp.old_cols)],
                              !.old_cols = SubSeq(@, 1, Len(@) - 1)]
         ELSE IF is_control(c) THEN sp
         ELSE IF sub_panics(sp.col, 1, overflow_checks) THEN sp
         ELSE [sp EXCEPT !.col = @ - 1]

\* validate that keeps old_cols
spanner_validate_keep(sp) == sp

spanner_validate(sp) ==
  IF sp.kind = "RowCol" THEN [sp EXCEPT !.old_cols = <<>>] ELSE sp

\* the trait's default method: forward once per char of s
RECURSIVE forward_str_default(_, _)
forward_str_default(sp, cs) ==
  IF cs = <<>> THEN sp ELSE forward_str_default(forward(sp, Head(cs)), Tail(cs))

\* forward_str whose CharSpanner arm adds the byte length of s
forward_str_char_bytes(sp, s) ==
  CASE sp.kind = "NoOp" -> sp
    [] sp.kind = "Byte" -> [sp EXCEPT !.bytes = @ + Len(s)]
    [] sp.kind = "Char" -> [sp EXCEPT !.kars = @ + Len(s)]
    [] OTHER -> forward_str_default(sp, chars(s))

\* forward_str whose ByteSpanner arm adds the number of chars of s
forward_str_byte_chars(sp, s) ==
  CASE sp.kind = "NoOp" -> sp
    [] sp.kind = "Byte" -> [sp EXCEPT !.bytes = @ + Len(chars(s))]
    [] sp.kind = "Char" -> [sp EXCEPT !.kars = @ + Len(chars(s))]
    [] OTHER -> forward_str_default(sp, chars(s))

forward_str(sp, s) ==
  CASE sp.kind = "NoOp" -> sp
    [] sp.kind = "Byte" -> [sp EXCEPT !.bytes = @ + Len(s)]
    [] sp.kind = "Char" -> [sp EXCEPT !.kars = @ + Len(chars(s))]
    [] OTHER -> forward_str_default(sp, chars(s))

\* ------------------------------------------------------------- patterns
\* a pattern is one of
\*   [kind |-> "char",  c  |-> code point]            impl Pattern for char
\*   [kind |-> "str",   s  |-> bytes of the needle]   impl Pattern for &str
\*   [kind |-> "slice", cs |-> set of code points]    impl Pattern for &[char]
\*   [kind |-> "fn",    f  |-> [Alphabet -> BOOLEAN]] impl Pattern for FnMut(char) -> bool
CharPatterns  == {[kind |-> "char", c |-> c] : c \in Alphabet}
StrPatterns   == {[kind |-> "str", s |-> Str(cs)] :
                    cs \in SeqsUpTo(NeedleAlphabet, MaxPatLen)}
SlicePatterns == {[kind |-> "slice", cs |-> cs] :
                    cs \in {x \in SUBSET Alphabet : Cardinality(x) \in {0, 2}}}
FnPatterns    == {[kind |-> "fn", f |-> f] :
                    f \in {[c \in Alphabet |-> is_control(c)],
                           [c \in Alphabet |-> c >= 128],
                           [c \in Alphabet |-> ~is_newline(c)]}}

\* does the pattern accept the single char c (char, slice and closure patterns)
char_matches(pat, c) ==
  CASE pat.kind = "char"  -> c = pat.c
    [] pat.kind = "slice" -> c \in pat.cs
    [] OTHER              -> pat.f[c]

\* str::find with a char-wise pattern: the byte offset of the first char of
\* s, at or after byte offset i, that the pattern accepts
RECURSIVE find_char(_, _, _)
find_char(pat, s, i) ==
  IF i >= Len(s) THEN <<>>
  ELSE LET n == lead_width(s[i + 1])
       IN  IF char_matches(pat, decode_at(s, i, n)) THEN <<i>>
           ELSE find_char(pat, s, i + n)

\* str::find with a str needle: the first byte offset where the needle's
\* bytes occur in s
find_str(needle, s) ==
  LET hits == {i \in 0..(Len(s) - Len(needle)) :
                 SubSeq(s, i + 1, i + Len(needle)) = needle}
  IN  IF hits = {} THEN <<>>
      ELSE <<CHOOSE i \in hits : \A j \in hits : i <= j>>

\* Pattern::find(self, s)
find(pat, s) ==
  IF pat.kind = "str" THEN find_str(pat.s, s) ELSE find_char(pat, s, 0)

\* --------------------------------------------------------------- slices
\* a &'s str borrowed from the buffer: start offset in text and byte length
bytes(sl) == SubSeq(text, sl.ptr + 1, sl.ptr + sl.len)

\* sl.get_unchecked(from..to)
get_unchecked(sl, from, to) == [ptr |-> sl.ptr + from, len |-> to - from]

\* ------------------------------------------------------------ StrCursor
Self == [base |-> base, highlight_length |-> highlight_length,
         spanner_tail |-> spanner_tail, spanner_head |-> spanner_head]

with_spanner(s, spanner) ==
  [base |-> s, highlight_length |-> 0,
   spanner_tail |-> spanner, spanner_head |-> spanner]

highlight_empty(self) == self.highlight_length = 0

post_empty(self) == self.highlight_length = self.base.len

highlight(self) == get_unchecked(self.base, 0, self.highlight_length)

post(self) == get_unchecked(self.base, self.highlight_length, self.base.len)

\* step that advances by one byte instead of the char's encoded width
step_one_byte(self) ==
  LET nx == chars_next(bytes(post(self)))
  IN  IF nx = <<>> THEN [self |-> self, ret |-> <<>>]
      ELSE [self |-> [self EXCEPT !.highlight_length = @ + 1,
                                  !.spanner_head = forward(@, nx[1])],
            ret  |-> nx]

\* step that moves both spanners, as if tail and head were one shared value
step_shared_spanner(self) ==
  LET nx == chars_next(bytes(post(self)))
  IN  IF nx = <<>> THEN [self |-> self, ret |-> <<>>]
      ELSE [self |-> [self EXCEPT !.highlight_length = @ + len_utf8(nx[1]),
                                  !.spanner_head = forward(@, nx[1]),
                                  !.spanner_tail = forward(@, nx[1])],
            ret  |-> nx]

\* step with unwrap_or_default() in place of `?`: at the end it consumes a NUL
step_default_char(self) ==
  LET nx == chars_next(bytes(post(self)))
      c  == IF nx = <<>> THEN 0 ELSE nx[1]
  IN  [self |-> [self EXCEPT !.highlight_length = @ + len_utf8(c),
                             !.spanner_head = forward(@, c)],
       ret  |-> <<c>>]

step(self) ==
  LET nx == chars_next(bytes(post(self)))
  IN  IF nx = <<>> THEN [self |-> self, ret |-> <<>>]
      ELSE [self |-> [self EXCEPT !.highlight_length = @ + len_utf8(nx[1]),
                                  !.spanner_head = forward(@, nx[1])],
            ret  |-> nx]

unstep(self, overflow_checks) ==
  LET nb == char_indices_next_back(bytes(highlight(self)))
  IN  IF nb = <<>> THEN [self |-> self, ret |-> <<>>, panic |-> FALSE]
      ELSE IF backward_panics(self.spanner_head, nb[2], overflow_checks)
      THEN [self |-> [self EXCEPT !.highlight_length = nb[1],
                                  !.spanner_head = backward(@, nb[2], overflow_checks)],
            ret  |-> <<>>, panic |-> TRUE]
      ELSE [self |-> [self EXCEPT !.highlight_length = nb[1],
                                  !.spanner_head = backward(@, nb[2], overflow_checks)],
            ret  |-> <<nb[2]>>, panic |-> FALSE]

\* step_until that assigns the offset to highlight_length instead of adding it
step_until_assign(self, pat) ==
  LET rem_str == post(self)
      found   == find(pat, bytes(rem_str))
      offset  == IF found = <<>> THEN rem_str.len ELSE found[1]
      res     == get_unchecked(rem_str, 0, offset)
  IN  [self |-> [self EXCEPT !.highlight_length = offset,
                             !.spanner_head = forward_str(@, bytes(res))],
       ret  |-> res]

\* step_until with unwrap_or(0): no match consumes nothing
step_until_stay(self, pat) ==
  LET rem_str == post(self)
      found   == find(pat, bytes(rem_str))
      offset  == IF found = <<>> THEN 0 ELSE found[1]
      res     == get_unchecked(rem_str, 0, offset)
  IN  [self |-> [self EXCEPT !.highlight_length = @ + offset,
                             !.spanner_head = forward_str(@, bytes(res))],
       ret  |-> res]

\* step_until that moves highlight_length and leaves spanner_head alone
step_until_no_forward(self, pat) ==
  LET rem_str == post(self)
      found   == find(pat, bytes(rem_str))
      offset  == IF found = <<>> THEN rem_str.len ELSE found[1]
      res     == get_unchecked(rem_str, 0, offset)
  IN  [self |-> [self EXCEPT !.highlight_length = @ + offset],
       ret  |-> res]

step_until(self, pat) ==
  LET rem_str == post(self)
      found   == find(pat, bytes(rem_str))
      offset  == IF found = <<>> THEN rem_str.len ELSE found[1]
      res     == get_unchecked(rem_str, 0, offset)
  IN  [self |-> [self EXCEPT !.highlight_length = @ + offset,
                             !.spanner_head = forward_str(@, bytes(res))],
       ret  |-> res]

\* validate that narrows base but leaves highlight_length as it was
validate_keep_length(self) ==
  LET head == spanner_validate(self.spanner_head)
  IN  [base |-> get_unchecked(self.base, self.highlight_length, self.base.len),
       highlight_length |-> self.highlight_length,
       spanner_head |-> head,
       spanner_tail |-> head]

\* validate that clones spanner_head into spanner_tail before notifying it
validate_clone_first(self) ==
  [base |-> get_unchecked(self.base, self.highlight_length, self.base.len),
   highlight_length |-> 0,
   spanner_head |-> spanner_validate(self.spanner_head),
   spanner_tail |-> self.spanner_head]

\* validate that keeps the highlight as the new base instead of the post
validate_keep_prefix(self) ==
  LET head == spanner_validate(self.spanner_head)
  IN  [base |-> get_unchecked(self.base, 0, self.highlight_length),
       highlight_length |-> 0,
       spanner_head |-> head,
       spanner_tail |-> head]

\* validate that resets highlight_length before it narrows base
validate_reset_first(self) ==
  LET head == spanner_validate(self.spanner_head)
  IN  [base |-> get_unchecked(self.base, 0, self.base.len),
       highlight_length |-> 0,
       spanner_head |-> head,
       spanner_tail |-> head]

validate(self) ==
  LET head == spanner_validate(self.spanner_head)
  IN  [base |-> get_unchecked(self.base, self.highlight_length, self.base.len),
       highlight_length |-> 0,
       spanner_head |-> head,
       spanner_tail |-> head]

\* then_validate that commits whatever the closure returns
then_validate_always(self, f) ==
  [self |-> validate(self), arg |-> highlight(self), ret |-> f]

\* then_validate that commits first and runs the closure on the highlight left
then_validate_commit_first(self, f) ==
  LET done == validate(self)
  IN  [self |-> IF f = "Ok" THEN done ELSE self,
       arg  |-> highlight(done),
       ret  |-> f]

\* f: what the caller's closure returns on the highlight it is given, "Ok" or "Err"
then_validate(self, f) ==
  LET arg == highlight(self)
      res == f
  IN  [self |-> IF res = "Ok" THEN validate(self) ELSE self,
       arg  |-> arg,
       ret  |-> res]

\* ---------------------------------------------------------------- state
NoPat == [kind |-> "none"]
NoSlice == [ptr |-> 0, len |-> 0]

Store(self) ==
  /\ base' = self.base
  /\ highlight_length' = self.highlight_length
  /\ spanner_tail' = self.spanner_tail
  /\ spanner_head' = self.spanner_head

NewTrip(self) == [snap |-> self, fwd |-> <<>>, bwd |-> <<>>]

Buffers == {Str(cs) : cs \in SeqsUpTo(Alphabet, MaxLen)}

RowColSaved == [kind |-> "RowCol", row |-> 1, col |-> 0, old_cols |-> <<2>>]

InitSpanners(k) ==
  CASE k = "NoOp" -> {NoOpDefault}
    [] k = "Byte" -> {ByteDefault, [kind |-> "Byte", bytes |-> InitBytes]}
    [] k = "Char" -> {CharDefault}
    [] OTHER      -> {RowColDefault, RowColSaved}

\* a cursor created by with_spanner over a buffer, with a spanner of one of kinds
InitWith(kinds) ==
  /\ text \in Buffers
  /\ \E k \in kinds : \E sp \in InitSpanners(k) :
       LET self == with_spanner([ptr |-> 0, len |-> Len(text)], sp)
       IN  /\ init_spanner = sp
           /\ base = self.base
           /\ highlight_length = self.highlight_length
           /\ spanner_tail = self.spanner_tail
           /\ spanner_head = self.spanner_head
           /\ last = [op |-> "new", pre |-> self, ret |-> <<>>, pat |-> NoPat,
                      arg |-> NoSlice, f |-> "none", again |-> FALSE]
           /\ trip = NewTrip(self)
  /\ panicked = FALSE

Init == InitWith({"NoOp", "Byte", "Char", "RowCol"})

Step ==
  /\ ~panicked
  /\ LET r == step(Self)
     IN  /\ Store(r.self)
         /\ last' = [op |-> "step", pre |-> Self, ret |-> r.ret, pat |-> NoPat,
                     arg |-> NoSlice, f |-> "none", again |-> FALSE]
         /\ trip' = IF r.ret = <<>> THEN NewTrip(r.self)
                    ELSE IF trip.bwd = <<>>
                    THEN [trip EXCEPT !.fwd = Append(@, r.ret[1])]
                    ELSE [snap |-> Self, fwd |-> r.ret, bwd |-> <<>>]
  /\ UNCHANGED <<text, init_spanner, panicked>>

\* the build profile decides what a subtraction below zero does; either
\* profile's outcome is a step
Unstep ==
  /\ ~panicked
  /\ \E overflow_checks \in BOOLEAN :
       LET r == unstep(Self, overflow_checks)
       IN  /\ Store(r.self)
           /\ panicked' = r.panic
           /\ last' = [op |-> "unstep", pre |-> Self, ret |-> r.ret, pat |-> NoPat,
                       arg |-> NoSlice, f |-> "none", again |-> FALSE,
                       bulk |-> last.op = "step_until"]
           /\ trip' = IF r.ret # <<>> /\ Len(trip.bwd) < Len(trip.fwd)
                      THEN [trip EXCEPT !.bwd = Append(@, r.ret[1])]
                      ELSE NewTrip(r.self)
  /\ UNCHANGED <<text, init_spanner>>

\* logged: the pattern handed to step_until is kept in last.pat
StepUntil(pat, logged) ==
  /\ ~panicked
  /\ LET r == step_until(Self, pat)
     IN  /\ Store(r.self)
         /\ last' = [op |-> "step_until", pre |-> Self, ret |-> r.ret,
                     pat |-> IF logged THEN pat ELSE NoPat,
                     arg |-> NoSlice, f |-> "none", again |-> FALSE]
         /\ trip' = NewTrip(r.self)
  /\ UNCHANGED <<text, init_spanner, panicked>>

Validate ==
  /\ ~panicked
  /\ LET self == validate(Self)
     IN  /\ Store(self)
         /\ last' = [op |-> "validate", pre |-> Self, ret |-> <<>>, pat |-> NoPat,
                     arg |-> NoSlice, f |-> "none", again |-> last.op = "validate"]
         /\ trip' = NewTrip(self)
  /\ UNCHANGED <<text, init_spanner, panicked>>

ThenValidate(f) ==
  /\ ~panicked
  /\ LET r == then_validate(Self, f)
     IN  /\ Store(r.self)
         /\ last' = [op |-> "then_validate", pre |-> Self, ret |-> r.ret,
                     pat |-> NoPat, arg |-> r.arg, f |-> f, again |-> FALSE]
         /\ trip' = NewTrip(r.self)
  /\ UNCHANGED <<text, init_spanner, panicked>>

\* the query post_empty(): the cursor is left as it is
PostEmpty ==
  /\ ~panicked
  /\ last' = [op |-> "post_empty", pre |-> Self, ret |-> <<post_empty(Self)>>,
              pat |-> NoPat, arg |-> NoSlice, f |-> "none", again |-> FALSE]
  /\ UNCHANGED <<text, init_spanner, base, highlight_length, spanner_tail,
                 spanner_head, panicked, trip>>

StepUntilChar  == \E pat \in CharPatterns : StepUntil(pat, FALSE)
StepUntilStr   == \E pat \in StrPatterns : StepUntil(pat, FALSE)
StepUntilSlice == \E pat \in SlicePatterns : StepUntil(pat, FALSE)
StepUntilFn    == \E pat \in FnPatterns : StepUntil(pat, FALSE)
ThenValidateOk  == ThenValidate("Ok")
ThenValidateErr == ThenValidate("Err")

Next ==
  \/ Step
  \/ Unstep
  \/ StepUntilChar
  \/ StepUntilStr
  \/ StepUntilSlice
  \/ StepUntilFn
  \/ Validate
  \/ ThenValidateOk
  \/ ThenValidateErr
  \/ PostEmpty

Spec == Init /\ [][Next]_vars

\* The same cursor with the pattern of each step_until kept in last.pat.
FindChar  == \E pat \in CharPatterns : StepUntil(pat, TRUE)
FindStr   == \E pat \in StrPatterns : StepUntil(pat, TRUE)
FindSlice == \E pat \in SlicePatterns : StepUntil(pat, TRUE)
FindFn    == \E pat \in FnPatterns : StepUntil(pat, TRUE)

InitFind == InitWith({"NoOp", "RowCol"})

NextFind ==
  \/ Step
  \/ Unstep
  \/ FindChar
  \/ FindStr
  \/ FindSlice
  \/ FindFn
  \/ Validate

SpecFind == InitFind /\ [][NextFind]_vars

\* --------------------------------------------------------------- claims
Reverse(s) == [i \in 1..Len(s) |-> s[Len(s) + 1 - i]]
IsPrefix(p, s) == Len(p) <= Len(s) /\ SubSeq(s, 1, Len(p)) = p
Min(S) == CHOOSE m \in S : \A n \in S : m <= n

\* C1: a run of step() calls over a prefix P of post() returns the code
\* points of P in order; the unstep() calls that follow return them in
\* reverse order; and once as many unsteps as steps were made, the cursor
\* (base, highlight_length, highlight(), post(), both spanners, old_cols
\* included) is exactly as it was before the first step.
StepUnstepRoundTrip ==
  /\ IsPrefix(trip.fwd, chars(bytes(post(trip.snap))))
  /\ IsPrefix(trip.bwd, Reverse(trip.fwd))
  /\ (trip.fwd # <<>> /\ Len(trip.bwd) = Len(trip.fwd)) =>
       /\ Self = trip.snap
       /\ highlight(Self) = highlight(trip.snap)
       /\ post(Self) = post(trip.snap)
       /\ ~panicked

\* a RowCol cursor with a pending highlight holding a newline stepped over a
\* ordinary char and a newline and came back
RoundTripDone ==
  /\ spanner_head.kind = "RowCol"
  /\ Len(trip.fwd) = 2 /\ Len(trip.bwd) = 2
  /\ trip.fwd[2] = 10 /\ trip.fwd[1] = 8364
  /\ trip.snap.highlight_length > 0
  /\ trip.snap.spanner_head.old_cols # <<>>

\* C2: then_validate with a closure that returns an error changes nothing
\* of the cursor and returns the closure's error.
ThenValidateErrKeepsState ==
  (last.op = "then_validate" /\ last.f = "Err") =>
    /\ Self = last.pre
    /\ highlight(Self) = highlight(last.pre)
    /\ post(Self) = post(last.pre)
    /\ last.ret = "Err"

\* a failing then_validate on a RowCol cursor whose highlight holds a newline
FailedThenValidate ==
  /\ last.op = "then_validate" /\ last.f = "Err"
  /\ highlight_length > 0
  /\ spanner_head.kind = "RowCol"
  /\ spanner_head.old_cols # <<>>

\* C3: highlight_length is between 0 and len(base) and on a code-point
\* boundary of base (and base starts on a code-point boundary of the
\* buffer), so highlight() and post() are well-formed slices.
HighlightWindow ==
  /\ 0 <= highlight_length
  /\ highlight_length <= base.len
  /\ base.ptr >= 0
  /\ base.ptr + base.len <= Len(text)
  /\ is_char_boundary(text, base.ptr)
  /\ is_char_boundary(bytes(base), highlight_length)

\* after a commit, step_until stopped strictly inside the view, right after
\* a multi-byte char
WindowInsideBase ==
  /\ last.op = "step_until"
  /\ base.ptr > 0
  /\ 0 < highlight_length /\ highlight_length < base.len
  /\ bytes(base)[highlight_length] >= 128

\* C4: step_until never overshoots: the returned slice is the prefix of the
\* pre-call post() that was moved into the highlight, whole code points
\* only, and its length is the growth of highlight_length, which stays
\* within base.
StepUntilNoOvershoot ==
  last.op = "step_until" =>
    LET rem == post(last.pre)
    IN  /\ last.ret.len + last.pre.highlight_length = highlight_length
        /\ highlight_length <= base.len
        /\ last.ret.ptr = rem.ptr
        /\ last.ret.len >= 0 /\ last.ret.len <= rem.len
        /\ is_char_boundary(bytes(rem), last.ret.len)
        /\ bytes(highlight(Self)) = bytes(highlight(last.pre)) \o bytes(last.ret)

\* step_until moved a multi-byte char into a highlight that was not empty
\* and stopped before the end
SteppedUntilInside ==
  /\ last.op = "step_until"
  /\ last.pre.highlight_length > 0
  /\ last.ret.len >= 3
  /\ highlight_length < base.len

\* the pattern matches the code points cs at index i (0-based)
MatchesAt(pat, cs, i) ==
  IF pat.kind = "str"
  THEN LET n == chars(pat.s)
       IN  i + Len(n) <= Len(cs) /\ SubSeq(cs, i + 1, i + Len(n)) = n
  ELSE i < Len(cs) /\ char_matches(pat, cs[i + 1])

\* C5: step_until returns the prefix of post() before the first location
\* matching the pattern: empty, with highlight_length unchanged, if it
\* matches at offset 0; all of post(), leaving post_empty(), if it matches
\* nowhere.
StepUntilResult ==
  last.op = "step_until" =>
    LET rem == post(last.pre)
        cs  == chars(bytes(rem))
        M   == {i \in 0..Len(cs) : MatchesAt(last.pat, cs, i)}
    IN  /\ last.ret.ptr = rem.ptr
        /\ IF M = {}
           THEN last.ret = rem /\ post_empty(Self)
           ELSE /\ last.ret.len <= rem.len
                /\ chars(bytes(last.ret)) = SubSeq(cs, 1, Min(M))
                /\ Min(M) = 0 =>
                     (last.ret.len = 0
                      /\ highlight_length = last.pre.highlight_length)

\* a two-code-point literal was found in the middle of post()
FoundLiteralInside ==
  /\ last.op = "step_until"
  /\ last.pat.kind = "str"
  /\ Len(last.pat.s) >= 4
  /\ last.ret.len > 0
  /\ ~post_empty(Self)

\* C6: after validate(), base is the pre-call post(), highlight_length is 0,
\* highlight() is empty, post() is the same text, and spanner_tail equals
\* spanner_head, which is the pre-call spanner_head after its commit
\* notification (RowCol: same row and col, old_cols empty).
ValidateEffect ==
  last.op = "validate" =>
    /\ highlight_length = 0
    /\ base = post(last.pre)
    /\ highlight(Self).len = 0
    /\ bytes(post(Self)) = bytes(post(last.pre))
    /\ spanner_tail = spanner_head
    /\ IF spanner_head.kind = "RowCol"
       THEN /\ spanner_head.row = last.pre.spanner_head.row
            /\ spanner_head.col = last.pre.spanner_head.col
            /\ spanner_head.old_cols = <<>>
       ELSE spanner_head = last.pre.spanner_head

\* a RowCol cursor committed a highlight holding a newline, text remaining
ValidatedNewline ==
  /\ last.op = "validate"
  /\ last.pre.highlight_length > 0
  /\ last.pre.spanner_head.kind = "RowCol"
  /\ last.pre.spanner_head.old_cols # <<>>
  /\ base.len > 0

\* C7: validate() called right after validate() leaves the cursor as the
\* first call left it.
ValidateIdempotent ==
  (last.op = "validate" /\ last.again) => Self = last.pre

\* validate() was called twice in a row after a commit of some text
ValidatedTwice ==
  /\ last.op = "validate" /\ last.again
  /\ base.ptr > 0 /\ base.len > 0

\* C8: step, unstep, step_until and a failing then_validate leave base and
\* spanner_tail unchanged; spanner_tail changes only in validate or a
\* successful then_validate, where it becomes a copy of spanner_head.
TailFrame ==
  LET committing == \/ last.op = "validate"
                    \/ last.op = "then_validate" /\ last.f = "Ok"
      moving     == \/ last.op \in {"step", "unstep", "step_until"}
                    \/ last.op = "then_validate" /\ last.f = "Err"
  IN  /\ moving => (base = last.pre.base /\ spanner_tail = last.pre.spanner_tail)
      /\ spanner_tail # last.pre.spanner_tail => committing
      /\ committing => spanner_tail = spanner_head

\* after a commit, head stepped on and came back one char, still ahead of tail
HeadMovedTailStayed ==
  /\ last.op = "unstep" /\ last.ret # <<>>
  /\ base.ptr > 0
  /\ highlight_length > 0
  /\ spanner_head.kind = "Byte"
  /\ spanner_tail.bytes > 0
  /\ spanner_head # spanner_tail

\* C9: step() on an empty post() and unstep() on an empty highlight()
\* return nothing and change nothing, also once the view is exhausted and
\* committed.
EdgeNoOps ==
  /\ (last.op = "step" /\ post_empty(last.pre)) =>
       (last.ret = <<>> /\ Self = last.pre)
  /\ (last.op = "unstep" /\ highlight_empty(last.pre)) =>
       (last.ret = <<>> /\ Self = last.pre /\ ~panicked)

\* step() was called on a Char cursor whose view is exhausted and committed
SteppedAtExhausted ==
  /\ last.op = "step"
  /\ post_empty(last.pre) /\ highlight_empty(last.pre)
  /\ base.len = 0 /\ base.ptr > 0
  /\ spanner_head.kind = "Char"

\* C10: then_validate with a succeeding closure hands the closure the
\* highlight() of the state before the call, leaves the cursor as
\* validate() would have left it, and returns the closure's Ok.
ThenValidateCommits ==
  (last.op = "then_validate" /\ last.f = "Ok") =>
    /\ last.arg = highlight(last.pre)
    /\ bytes(last.arg) = SubSeq(bytes(last.pre.base), 1, last.pre.highlight_length)
    /\ Self = validate(last.pre)
    /\ last.ret = "Ok"

\* a succeeding then_validate committed a non-empty highlight
CommittedByThenValidate ==
  /\ last.op = "then_validate" /\ last.f = "Ok"
  /\ last.arg.len > 0
  /\ base.len > 0

\* the cursor was created with Default::default() (StrCursor::new)
CreatedDefault ==
  CASE init_spanner.kind = "NoOp" -> TRUE
    [] init_spanner.kind = "Byte" -> init_spanner.bytes = 0
    [] init_spanner.kind = "Char" -> init_spanner.kars = 0
    [] OTHER -> /\ init_spanner.row = 0 /\ init_spanner.col = 0
                /\ init_spanner.old_cols = <<>>

\* the code points of the buffer before head
BeforeHead == chars(SubSeq(text, 1, base.ptr + highlight_length))

\* the indices of the newlines of the code points cs
Newlines(cs) == {i \in 1..Len(cs) : is_newline(cs[i])}

\* C11: commit is irreversible: in every step the offset of base in the
\* buffer does not decrease, the new base is a suffix of the old one (same
\* end), and neither highlight() nor post() starts before the old base.
CommitIrreversible ==
  [][/\ base'.ptr >= base.ptr
     /\ base'.ptr + base'.len = base.ptr + base.len
     /\ base'.len >= 0
     /\ base'.ptr + highlight_length' >= base.ptr]_vars

\* two commits, each of some text, with text still left in the view
CommittedTwice ==
  /\ last.op = "validate"
  /\ last.pre.base.ptr > 0
  /\ base.ptr > last.pre.base.ptr
  /\ base.len > 0

\* C12: post_empty() tells whether the slice [tail..], from the tail to the
\* end of the underlying text, is empty, as its doc comment says.  It does
\* not: the body tests highlight_length == base.len(), the slice [head..],
\* and answers true on a pending highlight that reaches the end of the text.
PostEmptyFromTail ==
  last.op = "post_empty" =>
    last.ret[1] = (SubSeq(text, base.ptr + 1, Len(text)) = <<>>)

\* C13: spanner_head is spanner_tail moved forward over every code point of
\* highlight(), in order, whatever mix of step, unstep, step_until, validate
\* and then_validate led here.
HeadTracker ==
  spanner_head =
    forward_str_default(spanner_tail, chars(bytes(highlight(Self))))

\* a RowCol cursor unstepped a newline that a step_until had consumed, with
\* highlight left
UnsteppedAfterBulk ==
  /\ last.op = "unstep"
  /\ last.bulk
  /\ last.ret = <<10>>
  /\ highlight_length > 0
  /\ spanner_head.kind = "RowCol"

\* the counter a successful unstep() decremented is not below low
DecrementedNotBelow(low_col) ==
  (last.op = "unstep" /\ last.ret # <<>>) =>
    CASE spanner_head.kind = "NoOp" -> TRUE
      [] spanner_head.kind = "Byte" -> spanner_head.bytes >= spanner_tail.bytes
      [] spanner_head.kind = "Char" -> spanner_head.kars >= spanner_tail.kars
      [] OTHER ->
           IF is_newline(last.ret[1]) THEN spanner_head.row >= spanner_tail.row
           ELSE IF is_control(last.ret[1]) THEN TRUE
           ELSE spanner_head.col >= low_col

\* C14 (as stated): from a default tracker, backward never pops an empty
\* old_cols and never decrements row, col, bytes or kars below its value at
\* the last commit.
BackwardNotBelowCommit ==
  CreatedDefault => (~panicked /\ DecrementedNotBelow(spanner_tail.col))

\* C14 (amended): from a default tracker, backward never pops an empty
\* old_cols, never decrements row, bytes or kars below its value at the
\* last commit, and never decrements col below its value at the start of
\* the current line of the highlight: its value at the last commit while
\* the highlight holds no newline, 0 once it holds one.
BackwardNotBelowLine ==
  CreatedDefault =>
    /\ ~panicked
    /\ DecrementedNotBelow(IF spanner_head.old_cols = <<>>
                           THEN spanner_tail.col ELSE 0)

\* after a commit at a column > 0 and a newline, unstep() took col below
\* the column of the commit
ColBelowCommit ==
  /\ CreatedDefault
  /\ last.op = "unstep" /\ last.ret = <<8364>>
  /\ spanner_head.kind = "RowCol"
  /\ spanner_head.col < spanner_tail.col

\* C15: tracker inverse law: for the trackers T of the cursor and every code
\* point c (newline, control, ordinary), backward is defined on forward(T, c)
\* and gives back exactly T, old_cols included.
TrackerInverse ==
  \A T \in {spanner_head, spanner_tail} : \A c \in Alphabet :
    \A overflow_checks \in BOOLEAN :
      /\ ~backward_panics(forward(T, c), c, overflow_checks)
      /\ backward(forward(T, c), c, overflow_checks) = T

\* a RowCol head at a column > 0 of a later line stepped over a newline and
\* came back
NewlineUndone ==
  /\ spanner_head.kind = "RowCol"
  /\ trip.fwd = <<10>> /\ trip.bwd = <<10>>
  /\ spanner_head.col > 0
  /\ spanner_head.old_cols # <<>>

\* step applied n times
RECURSIVE steps(_, _)
steps(self, n) == IF n = 0 THEN self ELSE steps(step(self).self, n - 1)

\* C16: forward_str over a text gives the tracker that one forward per code
\* point gives, for every prefix of post() from the current spanner_head;
\* and a step_until left the cursor as as many step() calls as it consumed
\* code points would have.
BulkForward ==
  /\ LET cs == chars(bytes(post(Self)))
     IN  \A n \in 0..Len(cs) :
           forward_str(spanner_head, Str(SubSeq(cs, 1, n)))
             = forward_str_default(spanner_head, SubSeq(cs, 1, n))
  /\ last.op = "step_until" =>
       Self = steps(last.pre, Len(chars(bytes(last.ret))))

\* a Char cursor consumed two code points or more, one of them multi-byte,
\* in one step_until
BulkConsumed ==
  /\ last.op = "step_until"
  /\ spanner_head.kind = "Char"
  /\ last.ret.len >= 4
  /\ spanner_head.kars >= spanner_tail.kars + 2

\* C17: created with the default RowColSpanner, spanner_head.row is the
\* number of newlines of the buffer before head and spanner_head.col the
\* number of non-control code points between the last of them (or the
\* start of the buffer) and head.
RowColPosition ==
  (init_spanner.kind = "RowCol" /\ CreatedDefault) =>
    LET cs   == BeforeHead
        nl   == Newlines(cs)
        from == IF nl = {} THEN 0 ELSE CHOOSE i \in nl : \A j \in nl : j <= i
    IN  /\ spanner_head.row = Cardinality(nl)
        /\ spanner_head.col =
             Cardinality({i \in (from + 1)..Len(cs) : ~is_control(cs[i])})

\* two ordinary chars and a newline were stepped (row 1, col 0) and the
\* newline unstepped: row 0, col 2
NewlineUnstepped ==
  /\ init_spanner.kind = "RowCol" /\ CreatedDefault
  /\ trip.fwd = <<8364, 8364, 10>>
  /\ last.op = "unstep" /\ last.ret = <<10>>
  /\ last.pre.spanner_head.row = 1 /\ last.pre.spanner_head.col = 0
  /\ spanner_head.row = 0 /\ spanner_head.col = 2

\* C18: created with the default RowColSpanner, the length of
\* spanner_head.old_cols is the number of newlines in highlight(), and
\* old_cols is empty in both spanners right after validate.
SavedColumns ==
  (init_spanner.kind = "RowCol" /\ CreatedDefault) =>
    /\ Len(spanner_head.old_cols)
         = Cardinality(Newlines(chars(bytes(highlight(Self)))))
    /\ last.op = "validate" =>
         (spanner_head.old_cols = <<>> /\ spanner_tail.old_cols = <<>>)

\* after a commit, the highlight holds two newlines
TwoSavedColumns ==
  /\ init_spanner.kind = "RowCol" /\ CreatedDefault
  /\ base.ptr > 0
  /\ Len(spanner_head.old_cols) = 2

\* C19: highlight() followed by post() is base, the text committed so far
\* followed by base is the buffer, step, unstep and step_until keep base,
\* and a commit moves exactly the highlight out of base.
TextConservation ==
  LET committing == \/ last.op = "validate"
                    \/ last.op = "then_validate" /\ last.f = "Ok"
      moving     == last.op \in {"step", "unstep", "step_until"}
  IN  /\ bytes(highlight(Self)) \o bytes(post(Self)) = bytes(base)
      /\ SubSeq(text, 1, base.ptr) \o bytes(base) = text
      /\ moving =>
           /\ base = last.pre.base
           /\ bytes(highlight(Self)) \o bytes(post(Self))
                = bytes(highlight(last.pre)) \o bytes(post(last.pre))
      /\ committing =>
           bytes(highlight(last.pre)) \o bytes(base) = bytes(last.pre.base)

\* after a commit, head went on and came back one char, text on both sides
SplitMoved ==
  /\ last.op = "unstep" /\ last.ret # <<>>
  /\ base.ptr > 0
  /\ highlight_length > 0
  /\ highlight_length < base.len

\* C20: over ByteSpanner, spanner_head.bytes - spanner_tail.bytes is
\* highlight_length; created with the default tracker, spanner_tail.bytes
\* is the byte offset of base in the buffer and spanner_head.bytes that of
\* head.
ByteTrackerAgrees ==
  spanner_head.kind = "Byte" =>
    /\ spanner_head.bytes - spanner_tail.bytes = highlight_length
    /\ CreatedDefault =>
         /\ spanner_tail.bytes = base.ptr
         /\ spanner_head.bytes = base.ptr + highlight_length

\* a default Byte cursor, after a commit, unstepped a char a step_until had
\* consumed
ByteUnsteppedAfterBulk ==
  /\ spanner_head.kind = "Byte" /\ CreatedDefault
  /\ last.op = "unstep" /\ last.bulk /\ last.ret # <<>>
  /\ base.ptr > 0
  /\ highlight_length > 0

====
